---- MODULE Spec2Model ----
(***************************************************************************)
(* PublishDiagnosticsCollector and PublishDiagnostic of                    *)
(* cli/tools/registry/diagnostics.rs.                                      *)
(*                                                                         *)
(* Spec         the collector: producer threads calling push and consumer  *)
(*              threads calling print_and_error on clones of one collector *)
(*              (a clone shares the Arc, hence the one Mutex<Vec>).        *)
(* AdapterSpec  the Diagnostic accessors level, location and snippet,      *)
(*              applied to every payload of a bounded payload universe.    *)
(***************************************************************************)
EXTENDS Integers, Sequences, FiniteSets, TLC

\* ------------------------------------------------------------------ bounds
\* push calls over all producers
MaxPush == 2
\* print_and_error calls over all consumers
MaxCalls == 2
\* byte offsets range over 0..MaxPos
MaxPos == 2

\* the two producers of the publish pass: the fast-check pass over the module
\* graph and the import-map unfurler, each on its own thread
Producers == {"fast_check", "unfurler"}
Consumers == {"c1", "c2"}
NoHolder == "unlocked"

\* --------------------------------------------------------------- payloads
Specifiers == {"file:///a.ts", "file:///b.js"}

\* sub-reasons of deno_graph::FastCheckDiagnostic the model distinguishes
FastCheckReasons ==
  {"UnsupportedJavaScriptEntrypoint", "UnsupportedNestedJavaScript", "MissingExplicitType"}

None == [tag |-> "None"]
Some(v) == [tag |-> "Some", value |-> v]

\* SourceRange { start, end }, start <= end
SourceRanges == {r \in [start : 0..MaxPos, end : 0..MaxPos] : r.start <= r.end}

\* FastCheckDiagnostic as read through reason, specifier() and range()
FastCheckDiagnostics ==
  [reason : FastCheckReasons,
   specifier : Specifiers,
   range : {None} \cup {Some([range |-> r]) : r \in SourceRanges}]

\* ImportMapUnfurlDiagnostic::UnanalyzableDynamicImport { specifier, range }
ImportMapUnfurlDiagnostics ==
  [reason : {"UnanalyzableDynamicImport"}, specifier : Specifiers, range : SourceRanges]

FastCheck(raw) == [variant |-> "FastCheck", inner |-> raw]
ImportMapUnfurl(raw) == [variant |-> "ImportMapUnfurl", inner |-> raw]

\* enum PublishDiagnostic
PublishDiagnostic ==
  {FastCheck(raw) : raw \in FastCheckDiagnostics}
    \cup {ImportMapUnfurl(raw) : raw \in ImportMapUnfurlDiagnostics}

\* ---------------------------------------------------------------- adapter
SourcePos(p) == [tag |-> "SourcePos", pos |-> p]

\* level() without the arm for the unsupported JavaScript entrypoint
levelNoEntrypointArm(d) == IF d.variant = "FastCheck" THEN "Error" ELSE "Warning"

\* fn level(&self) -> DiagnosticLevel
level(d) ==
  IF d.variant = "FastCheck" /\ d.inner.reason = "UnsupportedJavaScriptEntrypoint"
    THEN "Warning"
  ELSE IF d.variant = "FastCheck"
    THEN "Error"
  ELSE "Warning"

\* fn location(&self) -> DiagnosticLocation
location(d) ==
  IF d.variant = "FastCheck"
    THEN IF d.inner.range.tag = "Some"
           THEN [tag |-> "PositionInFile",
                 specifier |-> d.inner.specifier,
                 source_pos |-> SourcePos(d.inner.range.value.range.start)]
           ELSE [tag |-> "File", specifier |-> d.inner.specifier]
    ELSE [tag |-> "PositionInFile",
          specifier |-> d.inner.specifier,
          source_pos |-> SourcePos(d.inner.range.start)]

\* snippet() with the end of the highlight taken one past the range's end
snippetEndInclusive(d) ==
  IF d.variant = "FastCheck"
    THEN IF d.inner.range.tag = "Some"
           THEN Some([source |-> d.inner.specifier,
                      highlight |->
                        [style |-> "Error",
                         range |-> [start |-> SourcePos(d.inner.range.value.range.start),
                                    end |-> SourcePos(d.inner.range.value.range.end + 1)]]])
           ELSE None
    ELSE Some([source |-> d.inner.specifier,
               highlight |->
                 [style |-> "Warning",
                  range |-> [start |-> SourcePos(d.inner.range.start),
                             end |-> SourcePos(d.inner.range.end + 1)],
                  description |-> "the unanalyzable dynamic import"]])

\* fn snippet(&self) -> Option<DiagnosticSnippet<'_>>
snippet(d) ==
  IF d.variant = "FastCheck"
    THEN IF d.inner.range.tag = "Some"
           THEN Some([source |-> d.inner.specifier,
                      highlight |->
                        [style |-> "Error",
                         range |-> [start |-> SourcePos(d.inner.range.value.range.start),
                                    end |-> SourcePos(d.inner.range.value.range.end)]]])
           ELSE None
    ELSE Some([source |-> d.inner.specifier,
               highlight |->
                 [style |-> "Warning",
                  range |-> [start |-> SourcePos(d.inner.range.start),
                             end |-> SourcePos(d.inner.range.end)],
                  description |-> "the unanalyzable dynamic import"]])

\* ------------------------------------------------------------------ state
VARIABLES
  diagnostics,  \* the shared Vec<PublishDiagnostic> behind Arc<Mutex<..>>
  lock,         \* the thread holding the Mutex, or NoHolder
  pc,           \* each thread's position
  arg,          \* push: the `diagnostic` parameter of each producer
  batch,        \* print_and_error: the local `diagnostics` of each consumer
  it,           \* print_and_error: entries of batch the for loop has consumed
  errors,       \* print_and_error: the local `errors` of each consumer
  result,       \* print_and_error: the value last returned to each consumer
  stderr,       \* what eprint! has written, in order
  pushes,       \* push calls begun so far
  calls,        \* print_and_error calls begun so far
  hist,         \* history: order of appends, takes, increments of `errors`
  mark,         \* history: per consumer, what its current call saw
  subject,      \* AdapterSpec: the diagnostic the accessors are called on
  seen          \* AdapterSpec: what each accessor returned

cvars == <<diagnostics, lock, pc, arg, batch, it, errors, result, stderr,
           pushes, calls, hist, mark>>
avars == <<subject, seen>>
vars == <<diagnostics, lock, pc, arg, batch, it, errors, result, stderr,
          pushes, calls, hist, mark, subject, seen>>

\* ------------------------------------------------------------ collector
Threads == Producers \cup Consumers

\* the payloads each producer pushes in Spec: the fast-check pass one of each
\* severity class, the unfurler its one kind
Payloads(p) ==
  IF p = "fast_check"
    THEN {FastCheck([reason |-> "UnsupportedJavaScriptEntrypoint",
                     specifier |-> "file:///b.js", range |-> None]),
          FastCheck([reason |-> "MissingExplicitType",
                     specifier |-> "file:///a.ts",
                     range |-> Some([range |-> [start |-> 0, end |-> 1]])])}
    ELSE {ImportMapUnfurl([reason |-> "UnanalyzableDynamicImport",
                           specifier |-> "file:///a.ts",
                           range |-> [start |-> 0, end |-> 1]])}

Ok == [tag |-> "Ok"]
Err(m) == [tag |-> "Err", msg |-> m]
Pending == [tag |-> "Pending"]

\* anyhow!("Found {} problem{}", errors, if errors == 1 { "" } else { "s" })
FoundProblems(n) ==
  [text |-> "Found", count |-> n, noun |-> IF n = 1 THEN "problem" ELSE "problems"]

\* the decision with errors > 1 for errors > 0
DecideAboveOne(n) == IF n > 1 THEN Err(FoundProblems(n)) ELSE Ok

\* the decision with errors >= 0 for errors > 0
DecideFromZero(n) == IF n >= 0 THEN Err(FoundProblems(n)) ELSE Ok

\* if errors > 0 { Err(..) } else { Ok(()) }
Decide(n) == IF n > 0 THEN Err(FoundProblems(n)) ELSE Ok

\* a push that replaces the list by the new entry
VecPushOverwrite(v, e) == <<e>>

\* a push that inserts at the head
VecPushFront(v, e) == <<e>> \o v

\* Vec::push
VecPush(v, e) == Append(v, e)

\* a drain that clones the list and leaves it in place
VecTakeCopy(v) == <<v, v>>

\* a drain that clears the list and hands out nothing
VecTakeClear(v) == <<<<>>, <<>>>>

\* Take::take on the Vec: <<the value handed out, the value left behind>>
VecTake(v) == <<v, <<>>>>

\* the guard bound to a local that lives to the end of the function
GuardHeldToEnd(c) == c

\* the holder of the Mutex once the statement of line 37 has ended: the
\* MutexGuard is a temporary of that statement
GuardAfterTake(c) == NoHolder

\* the counter incremented for every diagnostic, whatever its level
CountEvery(n, d) == n + 1

\* errors += 1 under matches!(diagnostic.level(), DiagnosticLevel::Error)
CountError(n, d) == IF level(d) = "Error" THEN n + 1 ELSE n

RECURSIVE Sum(_, _)
Sum(f, S) == IF S = {} THEN 0 ELSE LET x == CHOOSE y \in S : TRUE IN f[x] + Sum(f, S \ {x})

\* push calls of p that have returned
Returned(p) == IF pc[p] = "idle" THEN pushes[p] ELSE pushes[p] - 1

CollectorInit ==
  /\ diagnostics = <<>>
  /\ lock = NoHolder
  /\ pc = [t \in Threads |-> "idle"]
  /\ arg = [p \in Producers |-> None]
  /\ batch = [c \in Consumers |-> <<>>]
  /\ it = [c \in Consumers |-> 0]
  /\ errors = [c \in Consumers |-> 0]
  /\ result = [c \in Consumers |-> Pending]
  /\ stderr = <<>>
  /\ pushes = [p \in Producers |-> 0]
  /\ calls = [c \in Consumers |-> 0]
  /\ hist = [appended |-> <<>>, taken |-> 0, takes |-> 0, counted |-> 0, returns |-> 0]
  /\ mark = [c \in Consumers |->
               [call |-> 0, returned |-> [p \in Producers |-> 0], returns |-> 0,
                lo |-> 0, hi |-> 0, quiet |-> FALSE]]

AdapterIdle ==
  /\ subject = CHOOSE d \in Payloads("unfurler") : TRUE
  /\ seen = [level |-> None, location |-> None, snippet |-> None]

\* push, line 57: self.diagnostics.lock().unwrap()
PushLock(p, d) ==
  /\ pc[p] = "idle"
  /\ Sum(pushes, Producers) < MaxPush
  /\ lock = NoHolder
  /\ lock' = p
  /\ arg' = [arg EXCEPT ![p] = [id |-> <<p, pushes[p] + 1>>, d |-> d]]
  /\ pushes' = [pushes EXCEPT ![p] = @ + 1]
  /\ pc' = [pc EXCEPT ![p] = "locked"]
  /\ UNCHANGED <<diagnostics, batch, it, errors, result, stderr, calls, hist, mark>>
  /\ UNCHANGED avars

\* push, line 57: .push(diagnostic)
PushAppend(p) ==
  /\ pc[p] = "locked"
  /\ diagnostics' = VecPush(diagnostics, arg[p])
  /\ hist' = [hist EXCEPT !.appended = Append(@, arg[p].id)]
  /\ pc' = [pc EXCEPT ![p] = "appended"]
  /\ UNCHANGED <<lock, arg, batch, it, errors, result, stderr, pushes, calls, mark>>
  /\ UNCHANGED avars

\* push, line 57: the guard is dropped at the end of the statement
PushUnlock(p) ==
  /\ pc[p] = "appended"
  /\ lock' = NoHolder
  /\ pc' = [pc EXCEPT ![p] = "idle"]
  /\ UNCHANGED <<diagnostics, arg, batch, it, errors, result, stderr, pushes, calls,
                 hist, mark>>
  /\ UNCHANGED avars

\* print_and_error, line 36: let mut errors = 0
Call(c) ==
  /\ pc[c] = "idle"
  /\ Sum(calls, Consumers) < MaxCalls
  /\ errors' = [errors EXCEPT ![c] = 0]
  /\ batch' = [batch EXCEPT ![c] = <<>>]
  /\ it' = [it EXCEPT ![c] = 0]
  /\ result' = [result EXCEPT ![c] = Pending]
  /\ calls' = [calls EXCEPT ![c] = @ + 1]
  /\ mark' = [mark EXCEPT ![c] =
                [call |-> Sum(calls, Consumers) + 1,
                 returned |-> [p \in Producers |-> Returned(p)],
                 returns |-> hist.returns,
                 lo |-> 0, hi |-> 0, quiet |-> FALSE]]
  /\ pc' = [pc EXCEPT ![c] = "lock"]
  /\ UNCHANGED <<diagnostics, lock, arg, stderr, pushes, hist>>
  /\ UNCHANGED avars

\* print_and_error, line 37: self.diagnostics.lock().unwrap()
Lock(c) ==
  /\ pc[c] = "lock"
  /\ lock = NoHolder
  /\ lock' = c
  /\ pc' = [pc EXCEPT ![c] = "take"]
  /\ UNCHANGED <<diagnostics, arg, batch, it, errors, result, stderr, pushes, calls,
                 hist, mark>>
  /\ UNCHANGED avars

\* print_and_error, line 37: .take()
Take(c) ==
  /\ pc[c] = "take"
  /\ batch' = [batch EXCEPT ![c] = VecTake(diagnostics)[1]]
  /\ diagnostics' = VecTake(diagnostics)[2]
  /\ hist' = [hist EXCEPT !.taken = Len(hist.appended), !.takes = @ + 1]
  /\ mark' = [mark EXCEPT ![c].lo = hist.taken,
                          ![c].hi = Len(hist.appended),
                          ![c].quiet = hist.takes > 0 /\ hist.taken = Len(hist.appended)]
  /\ pc' = [pc EXCEPT ![c] = "unlock"]
  /\ UNCHANGED <<lock, arg, it, errors, result, stderr, pushes, calls>>
  /\ UNCHANGED avars

\* print_and_error, line 37: the end of the let statement
Unlock(c) ==
  /\ pc[c] = "unlock"
  /\ lock' = GuardAfterTake(c)
  /\ pc' = [pc EXCEPT ![c] = "loop"]
  /\ UNCHANGED <<diagnostics, arg, batch, it, errors, result, stderr, pushes, calls,
                 hist, mark>>
  /\ UNCHANGED avars

\* print_and_error, lines 39-44: one iteration of the for loop
Render(c) ==
  /\ pc[c] = "loop"
  /\ it[c] < Len(batch[c])
  /\ LET e == batch[c][it[c] + 1] IN
       /\ stderr' = Append(stderr, [e |-> e, by |-> c, call |-> mark[c].call])
       /\ errors' = [errors EXCEPT ![c] = CountError(@, e.d)]
       /\ hist' = [hist EXCEPT !.counted = @ + (CountError(errors[c], e.d) - errors[c])]
  /\ it' = [it EXCEPT ![c] = @ + 1]
  /\ UNCHANGED <<diagnostics, lock, pc, arg, batch, result, pushes, calls, mark>>
  /\ UNCHANGED avars

\* print_and_error, lines 45-53: the loop is over, the result is returned
Return(c) ==
  /\ pc[c] = "loop"
  /\ it[c] = Len(batch[c])
  /\ result' = [result EXCEPT ![c] = Decide(errors[c])]
  /\ hist' = [hist EXCEPT !.returns = @ + 1]
  /\ pc' = [pc EXCEPT ![c] = "idle"]
  /\ UNCHANGED <<diagnostics, lock, arg, batch, it, errors, stderr, pushes, calls, mark>>
  /\ UNCHANGED avars

Init == CollectorInit /\ AdapterIdle

Next ==
  \/ \E p \in Producers : \E d \in Payloads(p) : PushLock(p, d)
  \/ \E p \in Producers : PushAppend(p)
  \/ \E p \in Producers : PushUnlock(p)
  \/ \E c \in Consumers : Call(c)
  \/ \E c \in Consumers : Lock(c)
  \/ \E c \in Consumers : Take(c)
  \/ \E c \in Consumers : Unlock(c)
  \/ \E c \in Consumers : Render(c)
  \/ \E c \in Consumers : Return(c)

Spec == Init /\ [][Next]_vars

\* -------------------------------------------------------- adapter calls
AdapterInit ==
  /\ CollectorInit
  /\ subject \in PublishDiagnostic
  /\ seen = [level |-> None, location |-> None, snippet |-> None]

CallLevel ==
  /\ seen.level = None
  /\ seen' = [seen EXCEPT !.level = Some(level(subject))]
  /\ UNCHANGED subject
  /\ UNCHANGED cvars

CallLocation ==
  /\ seen.location = None
  /\ seen' = [seen EXCEPT !.location = Some(location(subject))]
  /\ UNCHANGED subject
  /\ UNCHANGED cvars

CallSnippet ==
  /\ seen.snippet = None
  /\ seen' = [seen EXCEPT !.snippet = Some(snippet(subject))]
  /\ UNCHANGED subject
  /\ UNCHANGED cvars

AdapterNext == CallLevel \/ CallLocation \/ CallSnippet

AdapterSpec == AdapterInit /\ [][AdapterNext]_vars

\* ----------------------------------------------------- collector claims
IdsOf(q) == [i \in DOMAIN q |-> q[i].id]
IdSet(q) == {q[i].id : i \in DOMAIN q}
Count(q, id) == Cardinality({i \in DOMAIN q : q[i] = id})
Pos(q, id) == CHOOSE i \in DOMAIN q : q[i] = id

\* what the call numbered k of consumer c has written to stderr, in order
RenderedBy(c, k) ==
  LET Mine(r) == r.by = c /\ r.call = k IN
  LET q == SelectSeq(stderr, Mine) IN [i \in DOMAIN q |-> q[i].e]

\* the call of c has returned
Done(c) == pc[c] = "idle" /\ result[c] # Pending

\* the entries of the batch of c the loop has not rendered yet
Rest(c) == SubSeq(batch[c], it[c] + 1, Len(batch[c]))

ErrorsIn(q) == Cardinality({i \in DOMAIN q : level(q[i].d) = "Error"})

\* C1: a print_and_error call that has returned reported success exactly when
\* none of the diagnostics it drained has Error level; warnings alone never
\* make it fail.
C1_SuccessIffNoError ==
  \A c \in Consumers :
    Done(c) =>
      /\ RenderedBy(c, mark[c].call) = batch[c]
      /\ result[c] = Ok <=> (\A i \in DOMAIN batch[c] : level(batch[c][i].d) # "Error")
      /\ (\A i \in DOMAIN batch[c] : level(batch[c][i].d) = "Warning") => result[c] = Ok

\* a call returned success after rendering two warnings, one of each kind
C1_Witness ==
  \E c \in Consumers :
    /\ Done(c)
    /\ result[c] = Ok
    /\ Len(batch[c]) = 2
    /\ {batch[c][i].d.variant : i \in DOMAIN batch[c]} = {"FastCheck", "ImportMapUnfurl"}

\* C2: a call that drained N diagnostics of which E >= 1 have Error level
\* fails, with all N rendered, with the count E and the wording "Found 1
\* problem" for E = 1, "Found E problems" for E > 1; no result exists while
\* the batch is still being rendered.
C2_FailureCountAndWording ==
  \A c \in Consumers :
    LET E == ErrorsIn(batch[c]) IN
    /\ (pc[c] = "loop" => result[c] = Pending)
    /\ (Done(c) /\ E >= 1) =>
         /\ Len(RenderedBy(c, mark[c].call)) = Len(batch[c])
         /\ result[c].tag = "Err"
         /\ result[c].msg.text = "Found"
         /\ result[c].msg.count = E
         /\ result[c].msg.noun = (IF E = 1 THEN "problem" ELSE "problems")

\* a call failed with "Found 1 problem" after rendering an error and a warning
C2_Witness ==
  \E c \in Consumers :
    /\ Done(c)
    /\ Len(batch[c]) = 2
    /\ ErrorsIn(batch[c]) = 1
    /\ result[c] = Err([text |-> "Found", count |-> 1, noun |-> "problem"])

\* C3: no push is lost: every push that returned before a print_and_error
\* call started is rendered by that call unless an earlier drain took it, and
\* when the call is the first drain and no other push reaches the list before
\* its take, the number it rendered is the number of pushes made before it.
C3_NoPushLost ==
  \A c \in Consumers :
    Done(c) =>
      LET mine == RenderedBy(c, mark[c].call) IN
      /\ \A p \in Producers : \A n \in 1..mark[c].returned[p] :
           \/ <<p, n>> \in IdSet(mine)
           \/ Pos(hist.appended, <<p, n>>) <= mark[c].lo
      /\ (mark[c].lo = 0 /\ mark[c].hi = Sum(mark[c].returned, Producers))
           => Len(mine) = Sum(mark[c].returned, Producers)

\* a first drain that started after a push of each producer had returned
\* rendered both
C3_Witness ==
  \E c \in Consumers :
    /\ Done(c)
    /\ mark[c].lo = 0
    /\ \A p \in Producers : mark[c].returned[p] = 1
    /\ Len(RenderedBy(c, mark[c].call)) = 2

\* C4: no diagnostic is rendered twice, whatever the number and interleaving
\* of print_and_error calls, and none is counted twice toward an error total.
C4_NeverRenderedTwice ==
  /\ \A i, j \in DOMAIN stderr : stderr[i].e.id = stderr[j].e.id => i = j
  /\ hist.counted =
       Cardinality({stderr[i].e.id : i \in {j \in DOMAIN stderr : level(stderr[j].e.d) = "Error"}})
  /\ \A c1, c2 \in Consumers :
       c1 # c2 => IdSet(Rest(c1)) \cap IdSet(Rest(c2)) = {}

\* two calls have returned, each having rendered a diagnostic
C4_Witness ==
  /\ \A c \in Consumers : Done(c) /\ Len(batch[c]) = 1
  /\ Len(stderr) = 2
  /\ stderr[1].call # stderr[2].call

\* C5: what one call renders is rendered in the order the pushes appended
\* under the lock, so two diagnostics of one producer drained by the same call
\* are rendered in the order that producer pushed them.
C5_RenderedInAppendOrder ==
  /\ \A c \in Consumers :
       pc[c] \in {"loop", "idle"} =>
         IdsOf(RenderedBy(c, mark[c].call))
           = SubSeq(hist.appended, mark[c].lo + 1, mark[c].lo + it[c])
  /\ \A i, j \in DOMAIN stderr :
       (/\ i < j
        /\ stderr[i].by = stderr[j].by
        /\ stderr[i].call = stderr[j].call
        /\ stderr[i].e.id[1] = stderr[j].e.id[1])
         => stderr[i].e.id[2] < stderr[j].e.id[2]

\* one call rendered two diagnostics of the same producer
C5_Witness ==
  \E c \in Consumers :
    /\ Done(c)
    /\ Len(batch[c]) = 2
    /\ batch[c][1].id[1] = batch[c][2].id[1]
    /\ Len(stderr) = 2

\* C6: a call whose take follows an earlier take with no push appended in
\* between (in particular a call made after an earlier one returned, with no
\* push since that one drained) renders nothing and reports success.
C6_IdempotentEmpty ==
  \A c \in Consumers :
    (Done(c) /\ mark[c].quiet) =>
      /\ batch[c] = <<>>
      /\ RenderedBy(c, mark[c].call) = <<>>
      /\ result[c] = Ok

\* after a call that rendered an error and failed had returned, a second call
\* on the same collector returned
C6_Witness ==
  \E c1, c2 \in Consumers :
    /\ Done(c1) /\ Done(c2)
    /\ mark[c1].call < mark[c2].call
    /\ mark[c2].returns > 0
    /\ mark[c2].quiet
    /\ result[c1].tag = "Err"
    /\ stderr # <<>>

\* C9: the drain is one swap-to-empty under the lock: every appended
\* diagnostic is in exactly one place, the shared list, the unrendered part of
\* one call's batch, or stderr, and the shared list is exactly what was
\* appended since the most recent take, the start of the next batch.
C9_AtomicDrain ==
  /\ \A id \in {hist.appended[i] : i \in DOMAIN hist.appended} :
       Count(IdsOf(diagnostics), id)
         + Sum([c \in Consumers |-> Count(IdsOf(Rest(c)), id)], Consumers)
         + Count([i \in DOMAIN stderr |-> stderr[i].e.id], id) = 1
  /\ IdsOf(diagnostics) = SubSeq(hist.appended, hist.taken + 1, Len(hist.appended))

\* a push landed while a call was rendering the batch it took, and a later
\* call is about to take it
C9_Witness ==
  \E c1, c2 \in Consumers :
    /\ pc[c1] = "loop" /\ Rest(c1) # <<>>
    /\ diagnostics # <<>>
    /\ pc[c2] = "take"

\* C10: print_and_error holds the lock only from its acquisition to the end
\* of the statement that takes the list: whenever a consumer is in its render
\* loop it does not hold the lock, and a producer may hold it.
C10_NoLockWhileRendering ==
  \A c \in Consumers :
    /\ pc[c] = "loop" => lock # c
    /\ lock = c => pc[c] \in {"take", "unlock"}

\* a producer holds the lock while a consumer has diagnostics left to render
C10_Witness ==
  \E c \in Consumers : \E p \in Producers :
    /\ pc[c] = "loop" /\ Rest(c) # <<>>
    /\ lock = p /\ pc[p] = "appended"

\* ------------------------------------------------------- adapter claims
\* the source range the payload carries, if any
RangeOf(d) ==
  IF d.variant = "FastCheck"
    THEN IF d.inner.range = None THEN None ELSE Some(d.inner.range.value.range)
    ELSE Some(d.inner.range)

\* C7: level() classifies a FastCheck diagnostic whose sub-reason is the
\* unsupported JavaScript entrypoint as Warning, every other FastCheck
\* diagnostic as Error, and every ImportMapUnfurl diagnostic as Warning.
C7_SeverityPolicy ==
  seen.level # None =>
    /\ (subject.variant = "FastCheck"
          /\ subject.inner.reason = "UnsupportedJavaScriptEntrypoint")
         => seen.level.value = "Warning"
    /\ (subject.variant = "FastCheck"
          /\ subject.inner.reason # "UnsupportedJavaScriptEntrypoint")
         => seen.level.value = "Error"
    /\ subject.variant = "ImportMapUnfurl" => seen.level.value = "Warning"

\* level() was called on an unsupported-JavaScript-entrypoint diagnostic
C7_Witness ==
  /\ subject.variant = "FastCheck"
  /\ subject.inner.reason = "UnsupportedJavaScriptEntrypoint"
  /\ seen.level = Some("Warning")

\* C8: location() and snippet() follow the payload's range: without a range
\* a File location and no snippet; with a range a PositionInFile location at
\* the range's start and a snippet highlighting exactly start..end; an
\* ImportMapUnfurl diagnostic always has the position and the snippet.
C8_LocationAndSnippet ==
  /\ seen.location # None =>
       LET l == seen.location.value IN
       /\ l.specifier = subject.inner.specifier
       /\ IF RangeOf(subject) = None
            THEN l.tag = "File"
            ELSE /\ l.tag = "PositionInFile"
                 /\ l.source_pos = SourcePos(RangeOf(subject).value.start)
       /\ subject.variant = "ImportMapUnfurl" => l.tag = "PositionInFile"
  /\ seen.snippet # None =>
       LET s == seen.snippet.value IN
       /\ IF RangeOf(subject) = None
            THEN s = None
            ELSE /\ s.tag = "Some"
                 /\ s.value.source = subject.inner.specifier
                 /\ s.value.highlight.range.start = SourcePos(RangeOf(subject).value.start)
                 /\ s.value.highlight.range.end = SourcePos(RangeOf(subject).value.end)
       /\ subject.variant = "ImportMapUnfurl" => s.tag = "Some"

\* location() and snippet() were called on a FastCheck diagnostic with the
\* range 1..2
C8_Witness ==
  /\ subject.variant = "FastCheck"
  /\ RangeOf(subject) = Some([start |-> 1, end |-> 2])
  /\ seen.location # None
  /\ seen.snippet # None
  /\ seen.snippet.value.tag = "Some"

====
